---- MODULE Spec2Model ----
(***************************************************************************)
(* Reaction-time tester (PastaProgramaDoCircuito/hardware&Software.py).    *)
(*                                                                         *)
(* Two threads of control: the main thread (the __main__ block) and the    *)
(* RPi.GPIO callback thread that runs iniciar_teste on each rising edge of *)
(* the button while edge detection is registered.                          *)
(*                                                                         *)
(* Units: time is in centiseconds (0.01 s), sensor pulse times are in      *)
(* microseconds, distances are in hundredths of a centimetre.              *)
(*                                                                         *)
(* Modelling decisions:                                                    *)
(*  - In simulation mode GPIO is a MagicMock: add_event_detect registers   *)
(*    nothing, so iniciar_teste is never invoked there.                    *)
(*  - The LED and buzzer pins are low when the process starts              *)
(*    (configuracao_gpio writes none of them).                             *)
(*  - Every GPIO write of iniciar_teste and mostrar_resultado is a step of *)
(*    its own; the callback thread can be observed between any two.        *)
(*  - bouncetime=500 covers the time from the accepted edge to line 135.   *)
(*  - Under SpecFalha a GPIO call may raise; only limpar_saidas has a      *)
(*    try / except, elsewhere the exception ends the callback.             *)
(*  - Process exit (end of the finally block) stops the callback thread.   *)
(***************************************************************************)
EXTENDS Integers, FiniteSets, Sequences, TLC

VARIABLES
    MODO_SIMULACAO,   \* line 8 / 13: TRUE when RPi.GPIO could not be imported
    buzzer_pwm,       \* line 33: "None", "pwm" (started), "parado" (stopped)
    pcMain,           \* position of the main thread in the __main__ block
    pc,               \* position of the callback thread ("idle" = no callback)
    detectando,       \* edge detection registered on PIN_BOTAO
    pendente,         \* an accepted edge waits for the busy callback thread
    botao,            \* level of PIN_BOTAO (0 / 1)
    leds,             \* level last written to the three LED pins
    buzzer,           \* [freq, duty, pino]: PWM parameters and raw pin level
    decorrido,        \* time.time() - tempo_inicio_estmulo, centiseconds
    inicioLeitura,    \* value of decorrido at the loop test that admitted the poll
    leitura,          \* value returned by the last medir_distancia()
    tempo_reacao,     \* argument of mostrar_resultado
    retorno,          \* where mostrar_resultado returns to
    reagiu,           \* local of iniciar_teste
    piscadas,         \* iterations of the blink loop completed
    tom,              \* [freq, dur]: arguments of the running tocar_tom
    nivel,            \* branch of mostrar_resultado taken
    atraso,           \* random.uniform(2, 5) drawn for this trial
    testes,           \* number of trials started
    descartados,      \* rising edges ignored while a callback was running
    falhasRestantes,  \* GPIO calls that may still raise
    chamadas,         \* calls of mostrar_resultado made by this iniciar_teste
    sondagens,        \* calls of medir_distancia made by this iniciar_teste,
                      \* counted up to MaxSondagens
    perdida           \* a reading that met line 148 did not end the loop

vars == <<MODO_SIMULACAO, buzzer_pwm, pcMain, pc, detectando, pendente, botao,
          leds, buzzer, decorrido, inicioLeitura, leitura, tempo_reacao,
          retorno, reagiu, piscadas, tom, nivel, atraso, testes, descartados,
          falhasRestantes, chamadas, sondagens, perdida>>

---------------------------------------------------------------------------
(* Bounds of the model *)

MaxTestes == 2
MaxDescartados == 1
MaxFalhas == 1
MaxSondagens == 4

---------------------------------------------------------------------------
(* Program constants *)

LIMITE_EXCELENTE == 30
LIMITE_MEDIO == 60
DISTANCIA_GATILHO == 1000
JANELA_REACAO == 500
TEMPO_ESGOTADO == 999
LEITURA_TIMEOUT == 99900
ECHO_TIMEOUT_US == 100000
PAUSA_LEITURA == 1
FREQ_INICIAL == 1000
FREQ_EXCELENTE == 1500
DUR_EXCELENTE == 20
FREQ_LENTO == 440
DUR_LENTO == 100
N_PISCADAS == 3

\* random.uniform(1, 5) in place of random.uniform(2, 5)
Atrasos_Curto == {100, 499, 500}

\* random.uniform(2, 5) = 2 + (5 - 2) * random.random(): representative
\* delays in [2.0 s, 5.0 s]; the upper end point is returned when
\* random.random() is 1 - 2^-53, because 2 + 3 * (1 - 2^-53) rounds to 5.0
Atrasos == {200, 499, 500}

\* random.choice([50, 40, 5]) of the simulated sensor
LeiturasSimuladas == {5000, 4000, 500}

\* Echo behaviours of the HC-SR04 seen by medir_distancia on hardware:
\* espera = time until ECHO rises, pulso = time ECHO stays high (microseconds)
Ecos ==
    { [espera |-> 400,    pulso |-> 291],     \*  4.99 cm
      [espera |-> 400,    pulso |-> 583],     \* 10.00 cm
      [espera |-> 400,    pulso |-> 584],     \* 10.02 cm
      [espera |-> 400,    pulso |-> 2915],    \* 49.99 cm
      [espera |-> 90000,  pulso |-> 466],     \*  7.99 cm after a late echo
      [espera |-> 100001, pulso |-> 0],       \* ECHO never rises
      [espera |-> 90000,  pulso |-> 100001] } \* ECHO never falls

Pinos == {"amarelo", "verde", "vermelho"}

---------------------------------------------------------------------------
(* Pure helpers *)

\* GPIO.output(pin, value) on one of the LED pins
Output(l, pino, valor) == [l EXCEPT ![pino] = valor]

\* round((duracao_pulso * VELOCIDADE_DO_SOM) / 2, 2), in hundredths of a cm
DistanciaDoPulso(pulso) == (pulso * 1715 + 500) \div 1000

\* medir_distancia(): value returned for an echo behaviour
medir_distancia(eco) ==
    IF eco.espera > ECHO_TIMEOUT_US THEN LEITURA_TIMEOUT
    ELSE IF eco.pulso > ECHO_TIMEOUT_US THEN LEITURA_TIMEOUT
    ELSE DistanciaDoPulso(eco.pulso)

\* time spent inside medir_distancia(), in centiseconds
DuracaoLeitura(eco) ==
    IF eco.espera > ECHO_TIMEOUT_US THEN eco.espera \div 10000
    ELSE (eco.espera + eco.pulso) \div 10000


\* the thresholds compared with < instead of <=
Classificar_Estrito(t) ==
    IF t < LIMITE_EXCELENTE THEN "EXCELENTE"
    ELSE IF t < LIMITE_MEDIO THEN "MEDIO"
    ELSE "LENTO"

\* the if / elif / else of mostrar_resultado
Classificar(t) ==
    IF t <= LIMITE_EXCELENTE THEN "EXCELENTE"
    ELSE IF t <= LIMITE_MEDIO THEN "MEDIO"
    ELSE "LENTO"

\* limpar_saidas(): the LED writes; falha = k > 0 means the k-th call of the
\* try block raises, so the calls after it are skipped (except: pass)
LimparLeds(l, falha) ==
    [p \in Pinos |->
        IF p = "amarelo" THEN (IF falha = 1 THEN l[p] ELSE FALSE)
        ELSE IF p = "verde" THEN (IF falha \in {1, 2} THEN l[p] ELSE FALSE)
        ELSE (IF falha \in {1, 2, 3} THEN l[p] ELSE FALSE)]

\* limpar_saidas(): the buzzer write (4th call of the try block)
LimparBuzzer(b, falha) ==
    IF falha # 0 THEN b
    ELSE IF buzzer_pwm # "None" /\ ~MODO_SIMULACAO THEN [b EXCEPT !.duty = 0]
    ELSE [b EXCEPT !.pino = FALSE]

\* whether the next GPIO call may raise
Falhas == IF falhasRestantes > 0 THEN {FALSE, TRUE} ELSE {FALSE}

\* which call of limpar_saidas raises (0 = none)
FalhasLimpar == IF falhasRestantes > 0 THEN 0..4 ELSE {0}

Vivo == pcMain # "exited"

mainVars == <<MODO_SIMULACAO, buzzer_pwm, pcMain>>
botaoVars == <<botao, descartados>>
localVars == <<decorrido, inicioLeitura, leitura, tempo_reacao, retorno,
               reagiu, piscadas, tom, nivel, atraso>>

histVars == <<chamadas, sondagens, perdida>>

SemTom == [freq |-> 0, dur |-> 0]

---------------------------------------------------------------------------
(* Initial states: the process has just been started *)

InitComum ==
    /\ MODO_SIMULACAO \in BOOLEAN
    /\ buzzer_pwm = "None"
    /\ pcMain = "inicio"
    /\ pc = "idle"
    /\ detectando = FALSE
    /\ pendente = FALSE
    /\ botao = 0
    /\ leds = [p \in Pinos |-> FALSE]
    /\ buzzer = [freq |-> 0, duty |-> 0, pino |-> FALSE]
    /\ decorrido = 0
    /\ inicioLeitura = 0
    /\ leitura = -1
    /\ tempo_reacao = 0
    /\ retorno = "nenhum"
    /\ reagiu = FALSE
    /\ piscadas = 0
    /\ tom = SemTom
    /\ nivel = "nenhum"
    /\ atraso = 0
    /\ testes = 0
    /\ descartados = 0
    /\ chamadas = 0
    /\ sondagens = 0
    /\ perdida = FALSE

\* every GPIO call succeeds
Init == InitComum /\ falhasRestantes = 0

\* up to MaxFalhas GPIO calls raise
InitFalha == InitComum /\ falhasRestantes = MaxFalhas

---------------------------------------------------------------------------
(* Main thread: the __main__ block *)

\* configuracao_gpio()
configuracao_gpio ==
    /\ pcMain = "inicio"
    /\ pcMain' = "configurado"
    /\ buzzer_pwm' = IF MODO_SIMULACAO THEN "None" ELSE "pwm"
    /\ buzzer' = IF MODO_SIMULACAO THEN buzzer
                 ELSE [buzzer EXCEPT !.freq = FREQ_INICIAL, !.duty = 0]
    /\ UNCHANGED <<MODO_SIMULACAO, botaoVars, localVars, pc, detectando,
                   pendente, leds, testes, falhasRestantes, histVars>>

\* line 165; on the MagicMock GPIO the call registers nothing
RegistrarBotao ==
    /\ pcMain = "configurado"
    /\ pcMain' = "loop"
    /\ detectando' = ~MODO_SIMULACAO
    /\ UNCHANGED <<MODO_SIMULACAO, buzzer_pwm, botaoVars, localVars, pc,
                   pendente, leds, buzzer, testes, falhasRestantes, histVars>>

\* KeyboardInterrupt raised in the main thread inside the try block
KeyboardInterrupt ==
    /\ pcMain \in {"inicio", "configurado", "loop"}
    /\ pcMain' = "finally"
    /\ UNCHANGED <<MODO_SIMULACAO, buzzer_pwm, botaoVars, localVars, pc,
                   detectando, pendente, leds, buzzer, testes, falhasRestantes, histVars>>


\* the finally block releasing nothing in either mode
Finally_SemCleanup ==
    /\ pcMain = "finally"
    /\ pcMain' = "exited"
    /\ UNCHANGED <<MODO_SIMULACAO, buzzer_pwm, buzzer, leds, detectando,
                   botaoVars, localVars, pc, pendente, testes,
                   falhasRestantes, histVars>>

\* the finally block, then process exit
Finally ==
    /\ pcMain = "finally"
    /\ pcMain' = "exited"
    /\ IF MODO_SIMULACAO
       THEN UNCHANGED <<buzzer_pwm, buzzer, leds, detectando>>
       ELSE /\ buzzer_pwm' = IF buzzer_pwm # "None" THEN "parado" ELSE buzzer_pwm
            /\ buzzer' = [buzzer EXCEPT !.duty = 0, !.pino = FALSE]
            /\ leds' = [p \in Pinos |-> FALSE]
            /\ detectando' = FALSE
    /\ UNCHANGED <<MODO_SIMULACAO, botaoVars, localVars, pc, pendente,
                   testes, falhasRestantes, histVars>>

---------------------------------------------------------------------------
(* The button *)

\* rising edge on PIN_BOTAO
Borda ==
    /\ Vivo /\ ~MODO_SIMULACAO
    /\ botao = 0
    /\ botao' = 1
    /\ IF detectando /\ pc = "idle"
       THEN \* callback=iniciar_teste is invoked
            /\ testes < MaxTestes
            /\ pc' = "L135"
            /\ testes' = testes + 1
            /\ UNCHANGED <<pendente, descartados>>
       ELSE IF detectando /\ pc # "L135"
       THEN \* the callback thread is busy: the edge waits in its queue
            /\ pendente' = TRUE
            /\ UNCHANGED <<pc, testes, descartados>>
       ELSE \* no detection registered, or inside bouncetime=500: ignored
            /\ descartados' = IF pc # "idle" /\ descartados < MaxDescartados
                              THEN descartados + 1 ELSE descartados
            /\ UNCHANGED <<pc, testes, pendente>>
    /\ UNCHANGED <<mainVars, localVars, detectando, leds, buzzer,
                   falhasRestantes, histVars>>

\* falling edge on PIN_BOTAO
Solta ==
    /\ Vivo /\ ~MODO_SIMULACAO
    /\ botao = 1
    /\ botao' = 0
    /\ UNCHANGED <<mainVars, localVars, pc, detectando, pendente, leds,
                   buzzer, testes, descartados, falhasRestantes, histVars>>

---------------------------------------------------------------------------
(* Callback thread: iniciar_teste, mostrar_resultado, tocar_tom *)

\* an exception leaves iniciar_teste; nothing after the raising call runs
Abortar ==
    /\ pc' = "abortado"
    /\ falhasRestantes' = falhasRestantes - 1
    /\ UNCHANGED <<mainVars, botaoVars, localVars, detectando, pendente,
                   leds, buzzer, testes, histVars>>



\* the armed light switched on first, the edge detection not yet removed
L135_AmareloPrimeiro ==
    /\ Vivo /\ pc = "L135"
    /\ leds' = Output(leds, "amarelo", TRUE)
    /\ pc' = "L138"
    /\ UNCHANGED <<mainVars, botaoVars, localVars, detectando, pendente,
                   buzzer, testes, falhasRestantes, histVars>>

\* line 135 left out: the edge detection stays registered during the trial
L135_SemRemocao ==
    /\ Vivo /\ pc = "L135"
    /\ pc' = "L138"
    /\ UNCHANGED <<mainVars, botaoVars, localVars, detectando, pendente, leds,
                   buzzer, testes, falhasRestantes, histVars>>

\* line 135: GPIO.remove_event_detect(PIN_BOTAO)
L135 ==
    /\ Vivo /\ pc = "L135"
    /\ detectando' = FALSE
    /\ pc' = "L138"
    /\ UNCHANGED <<mainVars, botaoVars, localVars, pendente, leds, buzzer,
                   testes, falhasRestantes, histVars>>

\* line 138, then line 139 starts sleeping random.uniform(2, 5)
L138 ==
    /\ Vivo /\ pc = "L138"
    /\ \E f \in Falhas :
         IF f THEN Abortar
         ELSE /\ leds' = Output(leds, "amarelo", TRUE)
              /\ \E a \in Atrasos : atraso' = a
              /\ pc' = "L139"
              /\ UNCHANGED <<mainVars, botaoVars, decorrido, inicioLeitura,
                             leitura, tempo_reacao, retorno, reagiu, piscadas,
                             tom, nivel, detectando, pendente, buzzer, testes,
                             falhasRestantes, histVars>>

\* line 139: the sleep ends
L139 ==
    /\ Vivo /\ pc = "L139"
    /\ atraso' = 0
    /\ pc' = "L140"
    /\ UNCHANGED <<mainVars, botaoVars, decorrido, inicioLeitura, leitura,
                   tempo_reacao, retorno, reagiu, piscadas, tom, nivel,
                   detectando, pendente, leds, buzzer, testes,
                   falhasRestantes, histVars>>


\* line 140 left out: the yellow light is not switched off
L140_SemApagar ==
    /\ Vivo /\ pc = "L140"
    /\ pc' = "L143"
    /\ UNCHANGED <<mainVars, botaoVars, localVars, detectando, pendente, leds,
                   buzzer, testes, falhasRestantes, histVars>>

\* line 140: GPIO.output(PIN_LED_AMARELO, False)
L140 ==
    /\ Vivo /\ pc = "L140"
    /\ \E f \in Falhas :
         IF f THEN Abortar
         ELSE /\ leds' = Output(leds, "amarelo", FALSE)
              /\ pc' = "L143"
              /\ UNCHANGED <<mainVars, botaoVars, localVars, detectando,
                             pendente, buzzer, testes, falhasRestantes, histVars>>

\* line 143: GPIO.output(PIN_LED_VERDE, True)
L143 ==
    /\ Vivo /\ pc = "L143"
    /\ \E f \in Falhas :
         IF f THEN Abortar
         ELSE /\ leds' = Output(leds, "verde", TRUE)
              /\ pc' = "L144"
              /\ UNCHANGED <<mainVars, botaoVars, localVars, detectando,
                             pendente, buzzer, testes, falhasRestantes, histVars>>

\* lines 144-146: tempo_inicio_estmulo = time.time(); reagiu = False
L144 ==
    /\ Vivo /\ pc = "L144"
    /\ decorrido' = 0
    /\ reagiu' = FALSE
    /\ pc' = "L147"
    /\ UNCHANGED <<mainVars, botaoVars, inicioLeitura, leitura, tempo_reacao,
                   retorno, piscadas, tom, nivel, atraso, detectando,
                   pendente, leds, buzzer, testes, falhasRestantes, histVars>>

\* what one call of medir_distancia() can return, with the time it takes
Respostas ==
    IF MODO_SIMULACAO
    THEN {[valor |-> v, dur |-> 0] : v \in LeiturasSimuladas}
    ELSE {[valor |-> medir_distancia(e), dur |-> DuracaoLeitura(e)] : e \in Ecos}


\* the comparison of line 148 turned around
Detectou_Invertido(valor) == valor >= DISTANCIA_GATILHO


\* the comparison of line 148 with < instead of <=
Detectou_Estrito(valor) == valor < DISTANCIA_GATILHO

\* line 148: the test that a reading triggers the detection
Detectou(valor) == valor <= DISTANCIA_GATILHO



\* the loop test of line 147 turned around
DentroDaJanela_Invertido(t) == t > JANELA_REACAO

\* the loop test of line 147 with <= instead of <
DentroDaJanela_Inclusivo(t) == t <= JANELA_REACAO

\* line 147: the loop test
DentroDaJanela(t) == t < JANELA_REACAO

\* lines 147-150: loop test, one medir_distancia(), the comparison and, on a
\* detection, tempo_reacao = time.time() - tempo_inicio_estmulo and the call
\* of mostrar_resultado
Sondar ==
    /\ Vivo /\ pc = "L147"
    /\ IF DentroDaJanela(decorrido)
       THEN \E f \in Falhas :
              IF f THEN Abortar
              ELSE \E r \in Respostas :
                     /\ inicioLeitura' = decorrido
                     /\ leitura' = r.valor
                     /\ decorrido' = decorrido + r.dur
                     /\ IF Detectou(r.valor)
                        THEN /\ tempo_reacao' = decorrido + r.dur
                             /\ retorno' = "L151"
                             /\ chamadas' = chamadas + 1
                             /\ pc' = "M112"
                        ELSE /\ pc' = "L153"
                             /\ UNCHANGED <<tempo_reacao, retorno, chamadas>>
                     /\ sondagens' = IF sondagens < MaxSondagens
                                     THEN sondagens + 1 ELSE sondagens
                     /\ perdida' = (perdida \/ (r.valor <= DISTANCIA_GATILHO
                                                 /\ pc' # "M112"))
                     /\ UNCHANGED <<mainVars, botaoVars, reagiu, piscadas,
                                    tom, nivel, atraso, detectando, pendente,
                                    leds, buzzer, testes, falhasRestantes>>
       ELSE /\ pc' = "L155"
            /\ UNCHANGED <<mainVars, botaoVars, localVars, detectando,
                           pendente, leds, buzzer, testes, falhasRestantes, histVars>>


\* line 153 left out: the loop polls again without letting time pass
L153_SemPausa ==
    /\ Vivo /\ pc = "L153"
    /\ leitura' = -1
    /\ pc' = "L147"
    /\ UNCHANGED <<mainVars, botaoVars, decorrido, inicioLeitura,
                   tempo_reacao, retorno, reagiu, piscadas, tom, nivel,
                   atraso, detectando, pendente, leds, buzzer, testes,
                   falhasRestantes, histVars>>

\* line 153: time.sleep(0.01)
L153 ==
    /\ Vivo /\ pc = "L153"
    /\ decorrido' = decorrido + PAUSA_LEITURA
    /\ leitura' = -1
    /\ pc' = "L147"
    /\ UNCHANGED <<mainVars, botaoVars, inicioLeitura, tempo_reacao, retorno,
                   reagiu, piscadas, tom, nivel, atraso, detectando, pendente,
                   leds, buzzer, testes, falhasRestantes, histVars>>


\* line 151 left out: reagiu stays False after a detection
L151_SemReagiu ==
    /\ Vivo /\ pc = "L151"
    /\ pc' = "L155"
    /\ UNCHANGED <<mainVars, botaoVars, localVars, detectando, pendente,
                   leds, buzzer, testes, falhasRestantes, histVars>>

\* lines 151-152: reagiu = True; break
L151 ==
    /\ Vivo /\ pc = "L151"
    /\ reagiu' = TRUE
    /\ pc' = "L155"
    /\ UNCHANGED <<mainVars, botaoVars, decorrido, inicioLeitura, leitura,
                   tempo_reacao, retorno, piscadas, tom, nivel, atraso,
                   detectando, pendente, leds, buzzer, testes,
                   falhasRestantes, histVars>>

\* lines 155-157: if not reagiu: mostrar_resultado(9.99)
L155 ==
    /\ Vivo /\ pc = "L155"
    /\ IF ~reagiu
       THEN /\ tempo_reacao' = TEMPO_ESGOTADO
            /\ retorno' = "L159"
            /\ chamadas' = chamadas + 1
            /\ pc' = "M112"
       ELSE /\ pc' = "L159"
            /\ UNCHANGED <<tempo_reacao, retorno, chamadas>>
    /\ UNCHANGED <<mainVars, botaoVars, decorrido, inicioLeitura, leitura,
                   reagiu, piscadas, tom, nivel, atraso, detectando, pendente,
                   leds, buzzer, testes, falhasRestantes, sondagens, perdida>>

\* line 159: GPIO.add_event_detect(...); iniciar_teste returns and the
\* callback thread takes the next queued edge, if any
L159 ==
    /\ Vivo /\ pc = "L159"
    /\ detectando' = TRUE
    /\ pc' = IF pendente THEN "L135" ELSE "idle"
    /\ testes' = IF pendente THEN testes + 1 ELSE testes
    /\ pendente' = FALSE
    /\ decorrido' = 0
    /\ inicioLeitura' = 0
    /\ leitura' = -1
    /\ tempo_reacao' = 0
    /\ retorno' = "nenhum"
    /\ reagiu' = FALSE
    /\ nivel' = "nenhum"
    /\ chamadas' = 0
    /\ sondagens' = 0
    /\ perdida' = FALSE
    /\ UNCHANGED <<mainVars, botaoVars, piscadas, tom, atraso, leds, buzzer,
                   falhasRestantes>>



\* GPIO.add_event_detect moved to the start of mostrar_resultado
M112_Rearma ==
    /\ Vivo /\ pc = "M112"
    /\ \E k \in FalhasLimpar :
         /\ leds' = LimparLeds(leds, k)
         /\ buzzer' = LimparBuzzer(buzzer, k)
         /\ falhasRestantes' = IF k = 0 THEN falhasRestantes
                               ELSE falhasRestantes - 1
    /\ detectando' = TRUE
    /\ pc' = "M115"
    /\ UNCHANGED <<mainVars, botaoVars, localVars, pendente, testes,
                   histVars>>

\* line 112 left out: mostrar_resultado starts without clearing the outputs
M112_SemLimpar ==
    /\ Vivo /\ pc = "M112"
    /\ pc' = "M115"
    /\ UNCHANGED <<mainVars, botaoVars, localVars, detectando, pendente,
                   leds, buzzer, testes, falhasRestantes, histVars>>

\* line 112: limpar_saidas() at the entry of mostrar_resultado
M112 ==
    /\ Vivo /\ pc = "M112"
    /\ \E k \in FalhasLimpar :
         /\ leds' = LimparLeds(leds, k)
         /\ buzzer' = LimparBuzzer(buzzer, k)
         /\ falhasRestantes' = IF k = 0 THEN falhasRestantes
                               ELSE falhasRestantes - 1
    /\ pc' = "M115"
    /\ UNCHANGED <<mainVars, botaoVars, localVars, detectando, pendente,
                   testes, histVars>>

\* lines 115-125: the branch taken
M115 ==
    /\ Vivo /\ pc = "M115"
    /\ nivel' = Classificar(tempo_reacao)
    /\ pc' = CASE Classificar(tempo_reacao) = "EXCELENTE" -> "M117"
               [] Classificar(tempo_reacao) = "MEDIO" -> "M122"
               [] OTHER -> "M126"
    /\ piscadas' = 0
    /\ UNCHANGED <<mainVars, botaoVars, decorrido, inicioLeitura, leitura,
                   tempo_reacao, retorno, reagiu, tom, atraso, detectando,
                   pendente, leds, buzzer, testes, falhasRestantes, histVars>>

\* lines 117-118: green on, tocar_tom(1500, 0.2) is called
M117 ==
    /\ Vivo /\ pc = "M117"
    /\ \E f \in Falhas :
         IF f THEN Abortar
         ELSE /\ leds' = Output(leds, "verde", TRUE)
              /\ tom' = [freq |-> FREQ_EXCELENTE, dur |-> DUR_EXCELENTE]
              /\ pc' = "T75"
              /\ UNCHANGED <<mainVars, botaoVars, decorrido, inicioLeitura,
                             leitura, tempo_reacao, retorno, reagiu, piscadas,
                             nivel, atraso, detectando, pendente, buzzer,
                             testes, falhasRestantes, histVars>>

\* lines 126-127: red on, tocar_tom(440, 1.0) is called
M126 ==
    /\ Vivo /\ pc = "M126"
    /\ \E f \in Falhas :
         IF f THEN Abortar
         ELSE /\ leds' = Output(leds, "vermelho", TRUE)
              /\ tom' = [freq |-> FREQ_LENTO, dur |-> DUR_LENTO]
              /\ pc' = "T75"
              /\ UNCHANGED <<mainVars, botaoVars, decorrido, inicioLeitura,
                             leitura, tempo_reacao, retorno, reagiu, piscadas,
                             nivel, atraso, detectando, pendente, buzzer,
                             testes, falhasRestantes, histVars>>

\* tocar_tom, lines 75-79 / 82 / 84: the tone is switched on (or not) and
\* the sleep of duracao starts
tocar_tom ==
    /\ Vivo /\ pc = "T75"
    /\ IF ~MODO_SIMULACAO /\ buzzer_pwm # "None" /\ tom.freq > 0
       THEN \E f \in Falhas :
              IF f THEN Abortar
              ELSE /\ buzzer' = [buzzer EXCEPT !.freq = tom.freq, !.duty = 50]
                   /\ pc' = "T79"
                   /\ UNCHANGED <<mainVars, botaoVars, localVars, detectando,
                                  pendente, leds, testes, falhasRestantes, histVars>>
       ELSE /\ pc' = "T84"
            /\ UNCHANGED <<mainVars, botaoVars, localVars, detectando,
                           pendente, leds, buzzer, testes, falhasRestantes, histVars>>


\* line 80 left out: tocar_tom returns with the duty cycle still at 50
tocar_tom_fim_SemDesligar ==
    /\ Vivo /\ pc \in {"T79", "T84"}
    /\ tom' = SemTom
    /\ pc' = "M129"
    /\ UNCHANGED <<mainVars, botaoVars, decorrido, inicioLeitura, leitura,
                   tempo_reacao, retorno, reagiu, piscadas, nivel, atraso,
                   detectando, pendente, leds, buzzer, testes,
                   falhasRestantes, histVars>>

\* tocar_tom, lines 79-80 / 82 / 84: the sleep ends, the tone is switched
\* off if it was on, tocar_tom returns to line 129
tocar_tom_fim ==
    /\ Vivo /\ pc \in {"T79", "T84"}
    /\ IF pc = "T79"
       THEN \E f \in Falhas :
              IF f THEN Abortar
              ELSE /\ buzzer' = [buzzer EXCEPT !.duty = 0]
                   /\ tom' = SemTom
                   /\ pc' = "M129"
                   /\ UNCHANGED <<mainVars, botaoVars, decorrido,
                                  inicioLeitura, leitura, tempo_reacao,
                                  retorno, reagiu, piscadas, nivel, atraso,
                                  detectando, pendente, leds, testes,
                                  falhasRestantes, histVars>>
       ELSE /\ tom' = SemTom
            /\ pc' = "M129"
            /\ UNCHANGED <<mainVars, botaoVars, decorrido, inicioLeitura,
                           leitura, tempo_reacao, retorno, reagiu, piscadas,
                           nivel, atraso, detectando, pendente, leds, buzzer,
                           testes, falhasRestantes, histVars>>

\* line 122: GPIO.output(PIN_LED_AMARELO, True), then sleep(0.1)
M122 ==
    /\ Vivo /\ pc = "M122"
    /\ \E f \in Falhas :
         IF f THEN Abortar
         ELSE /\ leds' = Output(leds, "amarelo", TRUE)
              /\ pc' = "M123a"
              /\ UNCHANGED <<mainVars, botaoVars, localVars, detectando,
                             pendente, buzzer, testes, falhasRestantes, histVars>>

\* line 123: GPIO.output(PIN_LED_AMARELO, False), then sleep(0.1)
M123a ==
    /\ Vivo /\ pc = "M123a"
    /\ \E f \in Falhas :
         IF f THEN Abortar
         ELSE /\ leds' = Output(leds, "amarelo", FALSE)
              /\ pc' = "M123b"
              /\ UNCHANGED <<mainVars, botaoVars, localVars, detectando,
                             pendente, buzzer, testes, falhasRestantes, histVars>>

\* line 121: for _ in range(3), next iteration or end of the loop
M123b ==
    /\ Vivo /\ pc = "M123b"
    /\ piscadas' = piscadas + 1
    /\ pc' = IF piscadas + 1 < N_PISCADAS THEN "M122" ELSE "M129"
    /\ UNCHANGED <<mainVars, botaoVars, decorrido, inicioLeitura, leitura,
                   tempo_reacao, retorno, reagiu, tom, nivel, atraso,
                   detectando, pendente, leds, buzzer, testes,
                   falhasRestantes, histVars>>


\* line 130 left out: mostrar_resultado returns without clearing the outputs
M130_SemLimpar ==
    /\ Vivo /\ pc = "M129"
    /\ pc' = retorno
    /\ piscadas' = 0
    /\ UNCHANGED <<mainVars, botaoVars, decorrido, inicioLeitura, leitura,
                   tempo_reacao, retorno, reagiu, tom, nivel, atraso,
                   detectando, pendente, leds, buzzer, testes,
                   falhasRestantes, histVars>>

\* lines 129-131: the sleep(2) ends, limpar_saidas(), mostrar_resultado
\* returns to its caller
M130 ==
    /\ Vivo /\ pc = "M129"
    /\ \E k \in FalhasLimpar :
         /\ leds' = LimparLeds(leds, k)
         /\ buzzer' = LimparBuzzer(buzzer, k)
         /\ falhasRestantes' = IF k = 0 THEN falhasRestantes
                               ELSE falhasRestantes - 1
    /\ pc' = retorno
    /\ piscadas' = 0
    /\ UNCHANGED <<mainVars, botaoVars, decorrido, inicioLeitura, leitura,
                   tempo_reacao, retorno, reagiu, tom, nivel, atraso,
                   detectando, pendente, testes, histVars>>

---------------------------------------------------------------------------

MainStep == configuracao_gpio \/ RegistrarBotao \/ Finally

TrialStep ==
    \/ L135 \/ L138 \/ L139 \/ L140 \/ L143 \/ L144
    \/ Sondar \/ L153 \/ L151 \/ L155 \/ L159
    \/ M112 \/ M115 \/ M117 \/ M122 \/ M123a \/ M123b \/ M126 \/ M130
    \/ tocar_tom \/ tocar_tom_fim

Next ==
    \/ configuracao_gpio \/ RegistrarBotao \/ KeyboardInterrupt \/ Finally
    \/ Borda \/ Solta
    \/ L135 \/ L138 \/ L139 \/ L140 \/ L143 \/ L144
    \/ Sondar \/ L153 \/ L151 \/ L155 \/ L159
    \/ M112 \/ M115 \/ M117 \/ M122 \/ M123a \/ M123b \/ M126 \/ M130
    \/ tocar_tom \/ tocar_tom_fim

\* every GPIO call succeeds
Spec == Init /\ [][Next]_vars

\* GPIO calls may raise
SpecFalha == InitFalha /\ [][Next]_vars

\* the threads keep running: the callback thread takes its next step, the
\* main thread proceeds through its setup and its finally block
FairSpec == Init /\ [][Next]_vars /\ WF_vars(TrialStep) /\ WF_vars(MainStep)

---------------------------------------------------------------------------
(* Properties *)

LuzesAcesas == {p \in Pinos : leds[p]}

Silencio == buzzer.duty = 0 /\ ~buzzer.pino

TesteEmCurso == pc \notin {"idle", "abortado"}

\* C1: at most one trial is active at any time.  A trial starts only on a
\* rising edge that arrives while no callback runs and the edge detection is
\* registered; an edge that arrives during a trial starts no trial then and
\* leaves nothing queued that could start one later.
C1_UmTesteDeCadaVez ==
    /\ [][testes' # testes =>
            /\ pc = "idle" /\ detectando
            /\ botao = 0 /\ botao' = 1
            /\ testes' = testes + 1]_vars
    /\ [](~pendente)

\* C1 witness: a trial has run to its end, an edge was ignored while it ran,
\* and exactly one trial was started.
C1_Witness ==
    /\ pc = "idle" /\ detectando
    /\ testes = 1 /\ descartados = 1

\* C2 (as claimed): while the main loop runs on hardware, the edge detection
\* is unregistered only during a trial in progress.
C2_Original ==
    (~MODO_SIMULACAO /\ pcMain = "loop" /\ ~detectando) => TesteEmCurso

\* C3: at every instant at most one of the three lights is on.
C3_ExclusaoDasLuzes == Cardinality(LuzesAcesas) <= 1

\* C3 witness: the go light has just been switched on after the arming delay.
C3_Witness == pc = "L144" /\ leds["verde"] /\ ~leds["amarelo"]

\* C4: whenever the callback thread is idle and the edge detection is
\* registered (before the first trial and after each completed trial), all
\* three lights are off and the tone generator is silent.
C4_SaidasLimpas ==
    (pc = "idle" /\ detectando) => (LuzesAcesas = {} /\ Silencio)

\* C4 witness: a trial has completed and the detection is registered again.
C4_Witness == pc = "idle" /\ detectando /\ testes >= 1 /\ pcMain = "loop"

\* C5: the branch of mostrar_resultado is fixed by inclusive thresholds
\* (t <= 0.3 s EXCELENTE, 0.3 s < t <= 0.6 s MEDIO, t > 0.6 s LENTO), exactly
\* one branch runs, and each branch gives its feedback: green with 1500 Hz
\* for 0.2 s, yellow blinking without tone, red with 440 Hz for 1.0 s.
C5_Classificacao ==
    Vivo =>
    /\ nivel # "nenhum" =>
         /\ tempo_reacao <= 30 => nivel = "EXCELENTE"
         /\ (30 < tempo_reacao /\ tempo_reacao <= 60) => nivel = "MEDIO"
         /\ tempo_reacao > 60 => nivel = "LENTO"
    /\ pc \in {"M117", "M122", "M123a", "M123b", "M126", "T75", "T79", "T84"}
         => nivel # "nenhum"
    /\ pc = "M117" => nivel = "EXCELENTE"
    /\ pc \in {"M122", "M123a", "M123b"} =>
         /\ nivel = "MEDIO"
         /\ LuzesAcesas \subseteq {"amarelo"}
         /\ Silencio
    /\ pc = "M123a" => leds["amarelo"]
    /\ pc = "M126" => nivel = "LENTO"
    /\ pc \in {"T75", "T79", "T84"} => nivel \in {"EXCELENTE", "LENTO"}
    /\ (pc = "T79" /\ nivel = "EXCELENTE") =>
         /\ LuzesAcesas = {"verde"}
         /\ buzzer.freq = 1500 /\ buzzer.duty = 50 /\ tom.dur = 20
    /\ (pc = "T79" /\ nivel = "LENTO") =>
         /\ LuzesAcesas = {"vermelho"}
         /\ buzzer.freq = 440 /\ buzzer.duty = 50 /\ tom.dur = 100
    /\ pc # "T84"

\* C5 witness: a reaction time of exactly 0.3 s sounds the EXCELENTE tone.
C5_Witness == pc = "T79" /\ tempo_reacao = 30 /\ nivel = "EXCELENTE"

\* C6 (as claimed): a detected result is obtained only within 5.0 s of the
\* stimulus onset; past that the outcome is the timeout.
C6_Original ==
    (Vivo /\ retorno = "L151") => tempo_reacao <= JANELA_REACAO

\* C6 (amended): the 5.0 s window is tested at the head of the loop only.
\* A detected result comes from a poll admitted before 5.0 s whose reading is
\* at most 10 cm, even when the reading arrives after 5.0 s.  When no such
\* poll detects, the loop is left by the window, mostrar_resultado receives
\* the sentinel 9.99, and the feedback is the LENTO one (red, 440 Hz, 1.0 s).
C6_ForaDaJanela ==
    Vivo =>
    /\ retorno = "L151" =>
         /\ inicioLeitura < 500
         /\ leitura <= 1000
         /\ tempo_reacao = decorrido
    /\ pc = "L153" => leitura > 1000
    /\ (pc = "L155" /\ ~reagiu) => decorrido >= 500
    /\ retorno = "L159" =>
         /\ ~reagiu
         /\ decorrido >= 500
         /\ tempo_reacao = 999
         /\ nivel \in {"nenhum", "LENTO"}
         /\ pc \in {"M112", "M115", "M126", "T75", "T79", "M129", "L159"}
         /\ pc = "T79" =>
              /\ LuzesAcesas = {"vermelho"}
              /\ buzzer.freq = 440 /\ buzzer.duty = 50 /\ tom.dur = 100

\* C6 witness: the window closed without detection and the LENTO tone of the
\* timeout outcome is sounding.
C6_Witness == pc = "T79" /\ retorno = "L159" /\ tempo_reacao = 999

\* C7 (as claimed): every trial that has started eventually is back at idle
\* with the edge detection registered again.
C7_Original == (pc # "idle") ~> (pc = "idle" /\ detectando)

\* C7 (amended): every trial that has started eventually is back at idle
\* with the edge detection registered again, whatever the sensor returns,
\* unless the main thread is interrupted (KeyboardInterrupt) first and the
\* process shuts down with the trial unfinished.
C7_TesteTermina ==
    (pc # "idle") ~>
        ((pc = "idle" /\ detectando) \/ pcMain \in {"finally", "exited"})

\* C7 witness: the polling loop has been left by the 5.0 s window without
\* any detection.
C7_Witness == pc = "L155" /\ ~reagiu /\ pcMain = "loop"

\* C8 (as claimed): no failed GPIO call ends a trial before its feedback and
\* its re-arming.
C8_Original == pc # "abortado"

\* C9: a reading of 999 (echo timeout) is never a detection and never ends
\* the trial: after it the loop is at its sleep, mostrar_resultado has not
\* been called, and the loop is left without detection only by the window.
C9_LeituraFalha ==
    Vivo =>
    /\ leitura = LEITURA_TIMEOUT =>
         /\ pc = "L153"
         /\ retorno = "nenhum"
         /\ ~reagiu
         /\ nivel = "nenhum"
    /\ (pc \in {"L155", "M112"} /\ retorno # "L151" /\ ~reagiu) =>
         decorrido >= JANELA_REACAO

\* C9 witness: the sensor has just returned 999 and the loop goes on.
C9_Witness == pc = "L153" /\ leitura = LEITURA_TIMEOUT

\* C10: once the process has exited, all three lights are off and the tone
\* generator is stopped and silent, in hardware and in simulation mode.
C10_Encerramento ==
    pcMain = "exited" =>
        /\ LuzesAcesas = {}
        /\ Silencio
        /\ buzzer_pwm # "pwm"

\* C10 witness: the process exited on hardware while the tone was sounding.
C10_Witness == pcMain = "exited" /\ ~MODO_SIMULACAO /\ pc = "T79"


\* C11: in every trial mostrar_resultado is called exactly once, either from
\* line 150 with the measured time (and then reagiu keeps line 157 from
\* calling it) or from line 157 with the sentinel, never both, never neither.
C11_UmaChamada ==
    /\ chamadas <= 1
    /\ pc \in {"L135", "L138", "L139", "L140", "L143", "L144", "L147", "L153"}
         => chamadas = 0
    /\ (pc = "L155" /\ ~reagiu) => chamadas = 0
    /\ pc \in {"M112", "M115", "M117", "M122", "M123a", "M123b", "M126",
               "T75", "T79", "T84", "M129", "L151", "L159"} => chamadas = 1
    /\ chamadas = 1 =>
         \/ retorno = "L151" /\ tempo_reacao # TEMPO_ESGOTADO
         \/ retorno = "L159" /\ tempo_reacao = TEMPO_ESGOTADO /\ ~reagiu
    /\ (pc = "L159" /\ retorno = "L151") => reagiu

\* C11 witness: a detected trial is about to re-arm; the call of line 157 was
\* not made.
C11_Witness ==
    pc = "L159" /\ retorno = "L151" /\ reagiu /\ chamadas = 1

\* C12: the loop ends at the first reading of at most 10 cm (10.00 cm
\* included) and at no earlier one, and the reaction time is the time from
\* the stimulus onset to that reading; a detection at the fourth reading with
\* 10 ms between readings gives 0.03 s, which is EXCELENTE.
C12_PrimeiraDeteccao ==
    /\ ~perdida
    /\ pc = "L153" => leitura > 1000
    /\ retorno = "L151" =>
         /\ leitura <= 1000
         /\ sondagens >= 1
         /\ tempo_reacao = decorrido
         /\ tempo_reacao >= (sondagens - 1) * 1
    /\ (retorno = "L151" /\ sondagens = 4 /\ tempo_reacao = 3
          /\ nivel # "nenhum") => nivel = "EXCELENTE"

\* C12 witness: three readings above 10 cm, then the fourth reading of
\* exactly 10.00 cm, 0.03 s after the onset; the EXCELENTE tone sounds.
C12_Witness ==
    /\ pc = "T79" /\ nivel = "EXCELENTE"
    /\ sondagens = 4 /\ tempo_reacao = 3 /\ leitura = 1000


\* C13: the edge detection is registered only while no trial runs: in every
\* state of a trial after its first statement the detection is removed, and
\* that first statement (line 135) removes it before the trial has written
\* any output.
C13_GuardaSoEmIdle ==
    /\ [](detectando => pc \in {"idle", "L135"})
    /\ [](pc = "L135" => (LuzesAcesas = {} /\ Silencio))
    /\ [][(pc = "L135" /\ pc' # "L135") =>
            /\ pc' = "L138"
            /\ ~detectando'
            /\ leds' = leds /\ buzzer' = buzzer]_vars

\* C13 witness: the feedback is over, line 159 has not run yet, and the
\* detection is still removed.
C13_Witness == pc = "L159" /\ ~detectando /\ pcMain = "loop"


\* C14: the tone generator sounds only inside a tocar_tom call made by the
\* EXCELENTE or the LENTO branch of mostrar_resultado, with the frequency of
\* that call; it is off again when tocar_tom returns, and it never sounds
\* while idle, arming, polling, in the MEDIO branch or during the 2 s hold.
C14_TomDelimitado ==
    /\ ~buzzer.pino
    /\ buzzer.duty # 0 =>
         /\ Vivo /\ pc = "T79"
         /\ nivel \in {"EXCELENTE", "LENTO"}
         /\ buzzer.duty = 50
         /\ buzzer.freq = tom.freq /\ tom.freq \in {440, 1500}
    /\ (Vivo /\ pc = "T79") => buzzer.duty = 50
    /\ pc \in {"M129", "L151", "L155", "L159"} => buzzer.duty = 0

\* C14 witness: the LENTO tone has been played and tocar_tom has returned
\* with the generator off.
C14_Witness ==
    /\ pc = "M129" /\ nivel = "LENTO"
    /\ buzzer.freq = 440 /\ buzzer.duty = 0


\* C15 (as claimed): the arming delay is at least 2.0 s and less than 5.0 s.
C15_Original == pc = "L139" => (atraso >= 200 /\ atraso < 500)

\* C15 (amended): the armed light is on alone during the whole arming delay,
\* the delay is at least 2.0 s and at most 5.0 s, the armed light is off
\* before the go light is switched on, and the onset timestamp is taken with
\* the go light already on, the elapsed time counting from zero there.
C15_Agendamento ==
    /\ [](pc = "L139" => (atraso >= 200 /\ atraso <= 500))
    /\ []((Vivo /\ pc \in {"L139", "L140"}) => LuzesAcesas = {"amarelo"})
    /\ [](pc = "L143" => LuzesAcesas = {})
    /\ []((Vivo /\ pc = "L144") => LuzesAcesas = {"verde"})
    /\ [](pc \in {"L135", "L138", "L139", "L140", "L143", "L144"} =>
            (decorrido = 0 /\ tempo_reacao = 0))
    /\ [][(pc = "L144" /\ pc' = "L147") =>
            (leds["verde"] /\ ~leds["amarelo"] /\ decorrido' = 0)]_vars

\* C15 witness: the trial sleeps an arming delay of exactly 5.0 s with the
\* armed light on.
C15_Witness == pc = "L139" /\ atraso = 500 /\ leds["amarelo"] /\ Vivo


\* C16: mostrar_resultado clears the outputs when it starts and when it
\* ends: the go light, on at its entry, is off before any tier light is
\* switched on, and no light is on after it returns.  In the MEDIO branch the
\* yellow light is switched on and off exactly 3 times and ends off, the
\* green and the red light staying off.
C16_LimpezaNasFronteiras ==
    /\ (Vivo /\ pc = "M112") => LuzesAcesas = {"verde"}
    /\ pc \in {"M115", "M117", "M126"} => LuzesAcesas = {}
    /\ pc \in {"M122", "M123b"} => (LuzesAcesas = {} /\ piscadas < 3)
    /\ (Vivo /\ pc = "M123a") =>
         (LuzesAcesas = {"amarelo"} /\ piscadas < 3)
    /\ (pc = "M129" /\ nivel = "MEDIO") =>
         (LuzesAcesas = {} /\ piscadas = 3)
    /\ nivel = "MEDIO" => LuzesAcesas \subseteq {"amarelo"}
    /\ (pc = "L151" \/ pc = "L159" \/ (pc = "L155" /\ reagiu)) =>
         LuzesAcesas = {}

\* C16 witness: the third blink of the MEDIO feedback is over and the yellow
\* light is off.
C16_Witness ==
    pc = "M129" /\ nivel = "MEDIO" /\ piscadas = 3 /\ Vivo


\* C17: from the stimulus onset until mostrar_resultado starts, the go light
\* is the only light on and the tone generator is silent; no step of the
\* polling loop (loop test, sensor read, 10 ms sleep, leaving the loop)
\* changes a light or the tone generator; and every trial reads the sensor at
\* least once before its feedback.
C17_LoopNaoMexeNasSaidas ==
    /\ []((Vivo /\ (\/ pc \in {"L144", "L147", "L153", "M112"}
                    \/ (pc = "L155" /\ ~reagiu)))
            => (LuzesAcesas = {"verde"} /\ Silencio))
    /\ [][((pc \in {"L147", "L153"} \/ (pc = "L155" /\ ~reagiu))
             /\ pc' # pc)
            => (leds' = leds /\ buzzer' = buzzer)]_vars
    /\ [](pc = "L155" => sondagens >= 1)
    /\ [](chamadas >= 1 => sondagens >= 1)

\* C17 witness: the loop sleeps after its second reading with the go light
\* still on.
C17_Witness ==
    /\ Vivo /\ pc = "L153" /\ sondagens = 2
    /\ LuzesAcesas = {"verde"}


\* C18: inside a trial the edge detection is registered again only by line
\* 159, after mostrar_resultado has run once to its end (tier display, 2 s
\* hold, final clearing): at that step no light is on and the tone generator
\* is silent.  While a result is displayed the detection is removed and no
\* edge is queued, and a trial never starts with a light or tone left on.
C18_RearmeDepoisDoResultado ==
    /\ [][(~detectando /\ detectando') =>
            \/ (pcMain = "configurado" /\ testes = 0)
            \/ /\ pc = "L159" /\ pc' \in {"idle", "L135"}
               /\ chamadas = 1
               /\ LuzesAcesas = {} /\ Silencio /\ tom = SemTom]_vars
    /\ [](pc \in {"M112", "M115", "M117", "M122", "M123a", "M123b", "M126",
                  "T75", "T79", "T84", "M129"}
            => (~detectando /\ ~pendente))
    /\ [](pc \in {"L135", "L138"} => (LuzesAcesas = {} /\ Silencio))

\* C18 witness: during the 2 s hold of a result the button is down, its edge
\* was ignored, and the detection is removed.
C18_Witness ==
    /\ Vivo /\ pc = "M129" /\ ~detectando
    /\ botao = 1 /\ descartados = 1
    /\ LuzesAcesas # {}

====
